---- MODULE Spec2Model ----
(***************************************************************************)
(* Model of customer_otp_bot.py: the quota / cooldown / last-code ledger   *)
(* (StateManager), the /otp command handler with its gates, fixed delay,   *)
(* fetch with retries and outcome updates, the consecutive-error counter   *)
(* and the two admin commands.                                             *)
(*                                                                         *)
(* Time is an integer clock `now` (int(time.time())).  One clock unit      *)
(* stands for 90 seconds, so COOLDOWN_SECONDS (180 s) is 2 units; the     *)
(* environment-configured values (DELAY_SECONDS, MAX_REQUESTS_PER_USER,    *)
(* ERROR_RESTART_THRESHOLD, ALLOWED_DOMAIN) are fixed to small values.     *)
(* Strings are sequences of one-character strings.                         *)
(*                                                                         *)
(* Handlers are coroutines: a handler runs without interruption between    *)
(* two awaits, and the handlers of different updates may interleave at     *)
(* their awaits (spec, section 5).  An action is one such uninterrupted    *)
(* stretch.  A reply that is awaited last in a branch is part of the       *)
(* stretch before it, since nothing of the handler runs after it.          *)
(*                                                                         *)
(* Specifications: Spec is the program started on a missing STATE_FILE     *)
(* with every write succeeding; SpecFaults lets one write fail;            *)
(* SpecErrors starts it under any restart threshold; SpecFair serves the   *)
(* /otp updates of one user under a fair event loop; SpecLoad starts from  *)
(* any STATE_FILE and serves admin commands; SpecCooldown and SpecDomain   *)
(* drive set_cooldown and the domain validation alone.                     *)
(***************************************************************************)
EXTENDS Integers, Sequences, FiniteSets, TLC

\* ------------------------------------------------------------------ bounds
MaxTime == 3
MaxCommands == 2
MaxLen == 3
MaxSeconds == 3

\* ------------------------------------------------------- configuration (ENV)
ADMIN_IDS == {1}
ALLOWED_DOMAIN == <<"y">>
MAX_REQUESTS_PER_USER == 1
DELAY_SECONDS == 1
COOLDOWN_SECONDS == 2
ERROR_RESTART_THRESHOLD == 2
\* one attempt more than the three
max_retries_four == 2 + 2

max_retries == 3

\* ------------------------------------------------------------ input domains
Users == {1, 2}
Handlers == {1, 2}
Codes == {"111111", "222222"}
NoEmail == <<>>
EmailInputs == { <<"A", "@", "Y">>, <<"a", "@", "o">> }
ClearArgs == { <<>>, << <<"a", "@", "Y">> >> }
OtpArgs == { <<>> } \cup { <<s>> : s \in EmailInputs }
ResetArgs == { <<>>, << <<"1">> >>, << <<"x">> >> }

\* the arguments the domain validation is tried on: every string of 1..MaxLen
\* of these characters (context.args holds no empty and no blank string)
Chars == {"a", "A", "@", "y", "Y", "o"}
RECURSIVE StringsOfLen(_)
StringsOfLen(n) ==
    IF n = 0 THEN { <<>> }
    ELSE { <<c>> \o s : c \in Chars, s \in StringsOfLen(n - 1) }
ProbeStrings == UNION { StringsOfLen(n) : n \in 1..MaxLen }

\* ------------------------------------------------------------------ strings
LowerChar(c) ==
    CASE c = "A" -> "a"
      [] c = "Y" -> "y"
      [] c = "O" -> "o"
      [] OTHER -> c

Lower(s) == [i \in 1..Len(s) |-> LowerChar(s[i])]

RECURSIVE LStrip(_)
LStrip(s) == IF s # <<>> /\ Head(s) = " " THEN LStrip(Tail(s)) ELSE s

RECURSIVE RStrip(_)
RStrip(s) ==
    IF s # <<>> /\ s[Len(s)] = " " THEN RStrip(SubSeq(s, 1, Len(s) - 1)) ELSE s

Strip(s) == RStrip(LStrip(s))

EndsWith(s, suffix) ==
    /\ Len(s) >= Len(suffix)
    /\ SubSeq(s, Len(s) - Len(suffix) + 1, Len(s)) = suffix

\* email = context.args[0].strip().lower()
NormalizeEmail(arg) == Lower(Strip(arg))

\* not email.endswith(f"@{ALLOWED_DOMAIN}") is the rejection
DomainAccepts(email, domain) == EndsWith(email, <<"@">> \o domain)

\* ------------------------------------------------------------------- ledger
Put(f, k, v) == [x \in (DOMAIN f) \cup {k} |-> IF x = k THEN v ELSE f[x]]
Del(f, k) == [x \in (DOMAIN f) \ {k} |-> f[x]]
EmptyMap == [x \in {} |-> 0]

\* _load_state of a missing file: the three mappings, empty
EmptyLedger ==
    [user_requests |-> EmptyMap, cached_otps |-> EmptyMap, cooldowns |-> EmptyMap]

\* the backing file: absent, a JSON document, or cut short by a failed write
NoFile == [kind |-> "missing", doc |-> EmptyLedger]
Truncated == [kind |-> "truncated", doc |-> EmptyLedger]
Document(st) == [kind |-> "json", doc |-> st]

\* a file open() cannot read, and files holding a JSON value that is no object
Unreadable == [kind |-> "unreadable", doc |-> EmptyLedger]
JsonList == [kind |-> "json_list", doc |-> EmptyLedger]
JsonNumber == [kind |-> "json_number", doc |-> EmptyLedger]
JsonNull == [kind |-> "json_null", doc |-> EmptyLedger]

LedgerKeys == {"user_requests", "cached_otps", "cooldowns"}

\* dict.setdefault(k, v)
setdefault(data, k, v) == IF k \in DOMAIN data THEN data ELSE Put(data, k, v)

\* _load_state: a missing file and a file that open() or json.load() rejects
\* give {}; whatever json.load() returns is then sent setdefault three times,
\* outside the try, which only a dict has (AttributeError otherwise)
_load_state(file) ==
    LET is_dict == file.kind \in {"missing", "unreadable", "truncated", "json"}
        data == IF file.kind = "json" THEN file.doc ELSE EmptyMap
    IN [raised |-> ~is_dict,
        data |-> IF is_dict
                 THEN setdefault(setdefault(setdefault(data,
                          "user_requests", EmptyMap),
                          "cached_otps", EmptyMap),
                          "cooldowns", EmptyMap)
                 ELSE EmptyLedger]

\* outcome of one whole-document rewrite
SaveOutcomes == {"ok", "open_fails", "write_fails"}

Failed(outcome) == IF outcome = "ok" THEN 0 ELSE 1

\* open(file, "w") truncates, json.dump writes; any failure is swallowed
_save_state(doc, st, outcome) ==
    CASE outcome = "ok" -> Document(st)
      [] outcome = "open_fails" -> doc
      [] OTHER -> Truncated

\* str(user_id) is one-to-one: the user id itself is the key
get_user_requests(st, u) ==
    IF u \in DOMAIN st.user_requests THEN st.user_requests[u] ELSE 0

\* an increment that writes the count into a mapping of its own
increment_user_requests_alone(st, u) ==
    [st EXCEPT !.user_requests = Put(EmptyMap, u, get_user_requests(st, u) + 1)]

increment_user_requests(st, u) ==
    [st EXCEPT !.user_requests = Put(@, u, get_user_requests(st, u) + 1)]

\* a reset that drops every user's count
reset_user_limit_all(st, u) ==
    [st EXCEPT !.user_requests = EmptyMap]

reset_user_limit(st, u) ==
    [st EXCEPT !.user_requests = Del(@, u)]

\* a cache that keeps the first code seen for an email
cache_otp_keep_first(st, email, otp, t) ==
    IF email \in DOMAIN st.cached_otps
    THEN st
    ELSE [st EXCEPT !.cached_otps = Put(@, email, [otp |-> otp, timestamp |-> t])]

\* the record's timestamp is datetime.now(), here the clock value
cache_otp(st, email, otp, t) ==
    [st EXCEPT !.cached_otps = Put(@, email, [otp |-> otp, timestamp |-> t])]

\* a clear that empties the whole cache
clear_email_all(st, email) ==
    [st EXCEPT !.cached_otps = EmptyMap]

\* the deletion; the returned bool is email in cached_otps before the call
clear_email(st, email) ==
    [st EXCEPT !.cached_otps = Del(@, email)]

\* a cooldown that forgets to add the seconds
set_cooldown_no_offset(st, u, seconds, t) ==
    [st EXCEPT !.cooldowns = Put(@, u, t)]

set_cooldown(st, u, seconds, t) ==
    [st EXCEPT !.cooldowns = Put(@, u, t + seconds)]

next_allowed(st, u) == IF u \in DOMAIN st.cooldowns THEN st.cooldowns[u] ELSE 0

\* a remaining time that is not cut off at 0
remaining_cooldown_unclamped(st, u, t) == next_allowed(st, u) - t

remaining_cooldown(st, u, t) ==
    IF next_allowed(st, u) > t THEN next_allowed(st, u) - t ELSE 0

\* ------------------------------------------------------------------- state
VARIABLES
    now,             \* int(time.time())
    state,           \* state_manager.state, the in-memory ledger
    disk,            \* the content of STATE_FILE
    _CONSEC_ERRORS,  \* consecutive error outcomes
    alive,           \* FALSE once os._exit(1) ran
    handlers,        \* the otp_command invocations in flight
    last,            \* the command or outcome step taken last, and its report
    succ,            \* per user: success outcomes since the user's last reset
    saveBudget,      \* rewrites of STATE_FILE that may still fail
    commands,        \* updates (commands) dispatched so far
    probe,           \* input and result of a pure function under test
    threshold        \* ERROR_RESTART_THRESHOLD as read from the environment

vars ==
    <<now, state, disk, _CONSEC_ERRORS, alive, handlers, last, succ, saveBudget,
      commands, probe, threshold>>

IdleHandler ==
    [pc |-> "idle", user |-> 0, email |-> NoEmail, attempt |-> 0, wake |-> 0]

\* steps inside a handler that report nothing, and clock ticks
Quiet ==
    [op |-> "step", user |-> 0, args |-> <<>>, email |-> NoEmail,
     gate |-> "", cd |-> 0, otp |-> "", remaining |-> 0,
     wrote |-> FALSE, cooling |-> FALSE, warned |-> FALSE]

Event(op, u) == [Quiet EXCEPT !.op = op, !.user = u]

NoProbe == [arg |-> <<>>, done |-> FALSE, verdict |-> ""]

Init ==
    /\ now = 0
    /\ state = EmptyLedger
    /\ disk = NoFile
    /\ _CONSEC_ERRORS = 0
    /\ alive = TRUE
    /\ handlers = [h \in Handlers |-> IdleHandler]
    /\ last = Quiet
    /\ succ = [u \in Users |-> 0]
    /\ saveBudget = 0
    /\ commands = 0
    /\ probe = NoProbe
    /\ threshold = ERROR_RESTART_THRESHOLD

\* time.time() advances
Tick ==
    /\ alive
    /\ now < MaxTime
    /\ now' = now + 1
    /\ last' = Quiet
    /\ UNCHANGED <<state, disk, _CONSEC_ERRORS, alive, handlers, succ, saveBudget,
                   commands, probe, threshold>>

\* run_polling hands one more update to its command handler
Dispatch ==
    /\ commands < MaxCommands
    /\ commands' = commands + 1

\* ------------------------------------------------------------ /otp: gates
\* the gates in the order of the spec's state machine (quota before the email)
Gate_quota_first(st, u, args, t) ==
    IF remaining_cooldown(st, u, t) > 0 THEN "cooldown"
    ELSE IF get_user_requests(st, u) >= MAX_REQUESTS_PER_USER THEN "limit"
    ELSE IF args = <<>> THEN "no_args"
    ELSE IF ~DomainAccepts(NormalizeEmail(args[1]), ALLOWED_DOMAIN) THEN "bad_domain"
    ELSE "pass"

\* otp_command up to its first await on the passing path: which reply is sent
Gate(st, u, args, t) ==
    IF remaining_cooldown(st, u, t) > 0 THEN "cooldown"
    ELSE IF args = <<>> THEN "no_args"
    ELSE IF ~DomainAccepts(NormalizeEmail(args[1]), ALLOWED_DOMAIN) THEN "bad_domain"
    ELSE IF get_user_requests(st, u) >= MAX_REQUESTS_PER_USER THEN "limit"
    ELSE "pass"

\* a quota rejection that forgets its return
AfterGate_no_return(verdict, u, email, t) ==
    IF verdict \in {"pass", "limit"}
    THEN [IdleHandler EXCEPT !.pc = "delaying", !.user = u, !.email = email,
                             !.wake = t + DELAY_SECONDS]
    ELSE IdleHandler

\* every rejection replies and returns; a passing request sends the "Waiting"
\* reply and starts asyncio.sleep(DELAY_SECONDS)
AfterGate(verdict, u, email, t) ==
    IF verdict = "pass"
    THEN [IdleHandler EXCEPT !.pc = "delaying", !.user = u, !.email = email,
                             !.wake = t + DELAY_SECONDS]
    ELSE IdleHandler

IdleSlots == {h \in Handlers : handlers[h].pc = "idle"}
FreeSlot(h) == h \in IdleSlots /\ \A g \in IdleSlots : h <= g

\* one /otp update; notified = FALSE: the "Waiting" reply raised, which ends
\* the handler before the sleep (it is outside the try)
OtpCommand(h, u, args, notified) ==
    /\ alive
    /\ Dispatch
    /\ FreeSlot(h)
    /\ LET verdict == Gate(state, u, args, now)
           email == IF verdict = "cooldown" \/ args = <<>>
                    THEN NoEmail ELSE NormalizeEmail(args[1])
           hr == IF notified THEN AfterGate(verdict, u, email, now) ELSE IdleHandler
       IN /\ verdict = "pass" \/ notified
          /\ handlers' = [handlers EXCEPT ![h] = hr]
          /\ last' = [Event("otp", u)
                        EXCEPT !.args = args, !.gate = verdict, !.email = email,
                               !.cd = remaining_cooldown(state, u, now),
                               !.remaining =
                                   IF verdict = "pass"
                                   THEN MAX_REQUESTS_PER_USER
                                            - (get_user_requests(state, u) + 1)
                                   ELSE 0]
    /\ UNCHANGED <<now, state, disk, _CONSEC_ERRORS, alive, succ, saveBudget, probe, threshold>>

\* the sleep is over: fetch_otp_from_generator starts its first attempt
DelayElapsed(h) ==
    /\ alive
    /\ handlers[h].pc = "delaying"
    /\ now >= handlers[h].wake
    /\ handlers' = [handlers EXCEPT ![h].pc = "fetching", ![h].attempt = 0,
                                    ![h].wake = 0]
    /\ last' = Quiet
    /\ UNCHANGED <<now, state, disk, _CONSEC_ERRORS, alive, succ, saveBudget,
                   commands, probe, threshold>>

\* ------------------------------------------------- /otp: fetch and outcomes
\* _note_net_error_and_maybe_restart: the counter, and whether os._exit runs
note_net_error(n) == n + 1
\* an exit that waits for one error more
exits_at_late(n) == threshold > 0 /\ n > threshold

exits_at(n) == threshold > 0 /\ n >= threshold

\* a success branch that forgets the cooldown
success_updates_no_cooldown(st, u, email, otp, t) ==
    cache_otp(increment_user_requests(st, u), email, otp, t)

\* the three ledger calls of the success branch, in order
success_updates(st, u, email, otp, t) ==
    set_cooldown(cache_otp(increment_user_requests(st, u), email, otp, t),
                 u, COOLDOWN_SECONDS, t)

\* a not-found branch that counts the request
not_found_updates_counting(st, u, t) ==
    set_cooldown(increment_user_requests(st, u), u, COOLDOWN_SECONDS, t)

\* the one ledger call of the not-found branch
not_found_updates(st, u, t) == set_cooldown(st, u, COOLDOWN_SECONDS, t)

\* the parts of the success reply: "OTP Found", the code, the email and the
\* remaining quota; the code recorded before for the email is not read
success_reply(st, email, otp) == {"otp_found", "code", "email", "remaining"}

\* an attempt found a 6-digit code: the success branch, up to its reply
FetchFound(h, otp, o1, o2, o3) ==
    /\ alive
    /\ handlers[h].pc = "fetching"
    /\ Failed(o1) + Failed(o2) + Failed(o3) <= saveBudget
    /\ saveBudget' = saveBudget - (Failed(o1) + Failed(o2) + Failed(o3))
    /\ LET u == handlers[h].user
           email == handlers[h].email
           st1 == increment_user_requests(state, u)
           st2 == cache_otp(st1, email, otp, now)
           st3 == success_updates(state, u, email, otp, now)
       IN /\ state' = st3
          /\ disk' = _save_state(_save_state(_save_state(disk, st1, o1), st2, o2),
                                 st3, o3)
          /\ succ' = [succ EXCEPT ![u] = @ + 1]
          /\ last' = [Event("success", u)
                        EXCEPT !.email = email, !.otp = otp, !.wrote = TRUE,
                               !.warned = "stale_warning"
                                              \in success_reply(st3, email, otp),
                               !.cooling = remaining_cooldown(state, u, now) > 0,
                               !.remaining = MAX_REQUESTS_PER_USER
                                                 - get_user_requests(st3, u)]
    /\ _CONSEC_ERRORS' = 0
    /\ handlers' = [handlers EXCEPT ![h].pc = "replying"]
    /\ UNCHANGED <<now, alive, commands, probe, threshold>>

\* an attempt completed and located no code: the not-found branch
FetchNotFound(h, o1) ==
    /\ alive
    /\ handlers[h].pc = "fetching"
    /\ Failed(o1) <= saveBudget
    /\ saveBudget' = saveBudget - Failed(o1)
    /\ LET u == handlers[h].user
           st1 == not_found_updates(state, u, now)
       IN /\ state' = st1
          /\ disk' = _save_state(disk, st1, o1)
          /\ last' = [Event("not_found", u)
                        EXCEPT !.email = handlers[h].email, !.wrote = TRUE,
                               !.cooling = remaining_cooldown(state, u, now) > 0]
    /\ _CONSEC_ERRORS' = 0
    /\ handlers' = [handlers EXCEPT ![h].pc = "replying"]
    /\ UNCHANGED <<now, alive, succ, commands, probe, threshold>>

\* an attempt raised httpx.HTTPError and attempts are left: asyncio.sleep(2),
\* which is shorter than one clock unit, then the next attempt
HttpErrorRetry(h) ==
    /\ alive
    /\ handlers[h].pc = "fetching"
    /\ handlers[h].attempt < max_retries - 1
    /\ handlers' = [handlers EXCEPT ![h].attempt = @ + 1]
    /\ last' = Event("retry", handlers[h].user)
    /\ UNCHANGED <<now, state, disk, _CONSEC_ERRORS, alive, succ, saveBudget,
                   commands, probe, threshold>>

\* the except branches: count the error, maybe exit, send the error reply;
\* kind tells except httpx.HTTPError from except Exception
ErrorOutcome(h, wrote, kind) ==
    /\ _CONSEC_ERRORS' = note_net_error(_CONSEC_ERRORS)
    /\ alive' = ~exits_at(_CONSEC_ERRORS')
    /\ handlers' = [handlers EXCEPT ![h] = IdleHandler]
    /\ last' = [Event("error", handlers[h].user)
                    EXCEPT !.wrote = wrote, !.gate = kind]
    /\ UNCHANGED <<now, state, disk, succ, saveBudget, commands, probe, threshold>>

\* the last attempt raised httpx.HTTPError: the fetch raises to the handler
FetchRaises(h) ==
    /\ alive
    /\ handlers[h].pc = "fetching"
    /\ handlers[h].attempt = max_retries - 1
    /\ ErrorOutcome(h, FALSE, "http_error")

\* an attempt raised something that is no httpx.HTTPError: no retry
FetchUnexpected(h) ==
    /\ alive
    /\ handlers[h].pc = "fetching"
    /\ ErrorOutcome(h, FALSE, "unexpected")

\* the success / not-found reply was sent: the handler returns
ReplySent(h) ==
    /\ alive
    /\ handlers[h].pc = "replying"
    /\ handlers' = [handlers EXCEPT ![h] = IdleHandler]
    /\ last' = Quiet
    /\ UNCHANGED <<now, state, disk, _CONSEC_ERRORS, alive, succ, saveBudget,
                   commands, probe, threshold>>

\* the success / not-found reply raised inside the try: except Exception
ReplyFailed(h) ==
    /\ alive
    /\ handlers[h].pc = "replying"
    /\ ErrorOutcome(h, TRUE, "unexpected")

\* ---------------------------------------------------------- admin commands
InvalidInt == -1

\* int(context.args[0]); InvalidInt stands for ValueError
ParseInt(s) ==
    CASE s = <<"1">> -> 1
      [] s = <<"2">> -> 2
      [] OTHER -> InvalidInt

\* an admin check that lets every caller through
is_admin_anyone(caller) == TRUE

\* user.id in ADMIN_IDS
is_admin(caller) == caller \in ADMIN_IDS

AdminEvent(op, caller, gate) == [Event(op, caller) EXCEPT !.gate = gate]

ResetlimitCommand(caller, args, o1) ==
    /\ alive
    /\ Dispatch
    /\ IF ~is_admin(caller)
       THEN /\ last' = AdminEvent("resetlimit", caller, "admin_only")
            /\ UNCHANGED <<state, disk, succ, saveBudget>>
       ELSE IF args = <<>>
       THEN /\ last' = AdminEvent("resetlimit", caller, "usage")
            /\ UNCHANGED <<state, disk, succ, saveBudget>>
       ELSE IF ParseInt(args[1]) = InvalidInt
       THEN /\ last' = AdminEvent("resetlimit", caller, "invalid_id")
            /\ UNCHANGED <<state, disk, succ, saveBudget>>
       ELSE LET target == ParseInt(args[1])
                st1 == reset_user_limit(state, target)
            IN /\ Failed(o1) <= saveBudget
               /\ saveBudget' = saveBudget - Failed(o1)
               /\ state' = st1
               /\ disk' = _save_state(disk, st1, o1)
               /\ succ' = [succ EXCEPT ![target] = 0]
               /\ last' = [AdminEvent("resetlimit", caller, "done")
                             EXCEPT !.args = args]
    /\ UNCHANGED <<now, _CONSEC_ERRORS, alive, handlers, probe, threshold>>

ClearemailCommand(caller, args, o1) ==
    /\ alive
    /\ Dispatch
    /\ IF ~is_admin(caller)
       THEN /\ last' = AdminEvent("clearemail", caller, "admin_only")
            /\ UNCHANGED <<state, disk, saveBudget>>
       ELSE IF args = <<>>
       THEN /\ last' = AdminEvent("clearemail", caller, "usage")
            /\ UNCHANGED <<state, disk, saveBudget>>
       ELSE LET email == Lower(args[1])
            IN IF email \in DOMAIN state.cached_otps
               THEN /\ Failed(o1) <= saveBudget
                    /\ saveBudget' = saveBudget - Failed(o1)
                    /\ state' = clear_email(state, email)
                    /\ disk' = _save_state(disk, state', o1)
                    /\ last' = [AdminEvent("clearemail", caller, "cleared")
                                  EXCEPT !.email = email]
               ELSE /\ last' = [AdminEvent("clearemail", caller, "nothing_cached")
                                  EXCEPT !.email = email]
                    /\ UNCHANGED <<state, disk, saveBudget>>
    /\ UNCHANGED <<now, _CONSEC_ERRORS, alive, handlers, succ, probe, threshold>>

\* ------------------------------------------------------------ specification
Next ==
    \/ Tick
    \/ \E h \in Handlers, u \in Users, args \in OtpArgs, notified \in BOOLEAN :
           OtpCommand(h, u, args, notified)
    \/ \E h \in Handlers : DelayElapsed(h)
    \/ \E h \in Handlers, otp \in Codes, o1, o2, o3 \in SaveOutcomes :
           FetchFound(h, otp, o1, o2, o3)
    \/ \E h \in Handlers, o1 \in SaveOutcomes : FetchNotFound(h, o1)
    \/ \E h \in Handlers : HttpErrorRetry(h)
    \/ \E h \in Handlers : FetchRaises(h)
    \/ \E h \in Handlers : FetchUnexpected(h)
    \/ \E h \in Handlers : ReplySent(h)
    \/ \E h \in Handlers : ReplyFailed(h)
    \/ \E caller \in Users, args \in ResetArgs, o1 \in SaveOutcomes :
           ResetlimitCommand(caller, args, o1)
    \/ \E caller \in Users, args \in ClearArgs, o1 \in SaveOutcomes :
           ClearemailCommand(caller, args, o1)

Spec == Init /\ [][Next]_vars

\* a step of the fetch of handler h: an attempt ends, each within the client's
\* timeout of 15 seconds
FetchStep(h) ==
    \/ \E otp \in Codes, o1, o2, o3 \in SaveOutcomes : FetchFound(h, otp, o1, o2, o3)
    \/ \E o1 \in SaveOutcomes : FetchNotFound(h, o1)
    \/ HttpErrorRetry(h)
    \/ FetchRaises(h)
    \/ FetchUnexpected(h)

\* the program serving the /otp updates of one user, who is no admin
OtpUsers == {2}

NextOtp ==
    \/ Tick
    \/ \E h \in Handlers, u \in OtpUsers, args \in OtpArgs, notified \in BOOLEAN :
           OtpCommand(h, u, args, notified)
    \/ \E h \in Handlers : DelayElapsed(h)
    \/ \E h \in Handlers : FetchStep(h)
    \/ \E h \in Handlers : ReplySent(h)
    \/ \E h \in Handlers : ReplyFailed(h)

\* the event loop runs every fetch that can take a step
SpecFair ==
    Init /\ [][NextOtp]_vars /\ \A h \in Handlers : WF_vars(FetchStep(h))

\* ------------------------------------------- the domain validation, alone
\* a fresh process and one /otp argument
InitDomain ==
    /\ now = 0
    /\ state = EmptyLedger
    /\ disk = NoFile
    /\ _CONSEC_ERRORS = 0
    /\ alive = TRUE
    /\ handlers = [h \in Handlers |-> IdleHandler]
    /\ last = Quiet
    /\ succ = [u \in Users |-> 0]
    /\ saveBudget = 0
    /\ commands = 0
    /\ probe \in {[NoProbe EXCEPT !.arg = s] : s \in ProbeStrings}
    /\ threshold = ERROR_RESTART_THRESHOLD

\* the gates of otp_command applied to the argument, for a user with no
\* cooldown and no usage: the verdict is "pass" or "bad_domain"
ValidateDomain ==
    /\ ~probe.done
    /\ probe' = [probe EXCEPT !.done = TRUE,
                              !.verdict = Gate(state, 2, <<probe.arg>>, now)]
    /\ UNCHANGED <<now, state, disk, _CONSEC_ERRORS, alive, handlers, last, succ,
                   saveBudget, commands, threshold>>

NextDomain == ValidateDomain

SpecDomain == InitDomain /\ [][NextDomain]_vars

\* -------------------------------- the program under any restart threshold
\* values of the environment variable: 0 (restarts disabled), 1, and the
\* configured one
Thresholds == {0, 1, ERROR_RESTART_THRESHOLD}

InitErrors ==
    /\ now = 0
    /\ state = EmptyLedger
    /\ disk = NoFile
    /\ _CONSEC_ERRORS = 0
    /\ alive = TRUE
    /\ handlers = [h \in Handlers |-> IdleHandler]
    /\ last = Quiet
    /\ succ = [u \in Users |-> 0]
    /\ saveBudget = 0
    /\ commands = 0
    /\ probe = NoProbe
    /\ threshold \in Thresholds

SpecErrors == InitErrors /\ [][Next]_vars

\* ------------------------ the program with one rewrite of STATE_FILE failing
InitFaults ==
    /\ now = 0
    /\ state = EmptyLedger
    /\ disk = NoFile
    /\ _CONSEC_ERRORS = 0
    /\ alive = TRUE
    /\ handlers = [h \in Handlers |-> IdleHandler]
    /\ last = Quiet
    /\ succ = [u \in Users |-> 0]
    /\ saveBudget = 1
    /\ commands = 0
    /\ probe = NoProbe
    /\ threshold = ERROR_RESTART_THRESHOLD

SpecFaults == InitFaults /\ [][Next]_vars

\* ------------------------- start from any backing file, then admin commands
\* mappings a document may hold under each key
RequestMaps == {EmptyMap, 1 :> 1, 2 :> 1, (1 :> 1) @@ (2 :> 2)}
OtpMaps ==
    {EmptyMap,
     <<"a", "@", "y">> :> [otp |-> "111111", timestamp |-> 0],
     (<<"a", "@", "y">> :> [otp |-> "111111", timestamp |-> 0])
         @@ (<<"b", "@", "y">> :> [otp |-> "222222", timestamp |-> 0])}
CooldownMaps == {EmptyMap, 1 :> 2}

\* JSON objects holding any subset of the three keys
Objects ==
    {[k \in K |-> full[k]] :
        K \in SUBSET LedgerKeys,
        full \in [user_requests : RequestMaps, cached_otps : OtpMaps,
                  cooldowns : CooldownMaps]}

LoadFiles ==
    {NoFile, Truncated, Unreadable, JsonList, JsonNumber, JsonNull}
        \cup {Document(d) : d \in Objects}

InitLoad ==
    /\ now = 0
    /\ state = EmptyLedger
    /\ disk \in LoadFiles
    /\ _CONSEC_ERRORS = 0
    /\ alive = TRUE
    /\ handlers = [h \in Handlers |-> IdleHandler]
    /\ last = Quiet
    /\ succ = [u \in Users |-> 0]
    /\ saveBudget = 0
    /\ commands = 0
    /\ probe = NoProbe
    /\ threshold = ERROR_RESTART_THRESHOLD

\* state_manager = StateManager(STATE_FILE); an exception ends the start-up
LoadState ==
    /\ ~probe.done
    /\ LET r == _load_state(disk)
       IN /\ probe' = [probe EXCEPT !.done = TRUE,
                                     !.verdict = IF r.raised THEN "raised"
                                                 ELSE "loaded"]
          /\ state' = r.data
          /\ alive' = ~r.raised
    /\ UNCHANGED <<now, disk, _CONSEC_ERRORS, handlers, last, succ, saveBudget,
                   commands, threshold>>

NextLoad ==
    \/ LoadState
    \/ probe.done /\ Tick
    \/ /\ probe.done
       /\ \E caller \in Users, args \in ResetArgs, o1 \in SaveOutcomes :
              ResetlimitCommand(caller, args, o1)
    \/ /\ probe.done
       /\ \E caller \in Users, args \in ClearArgs, o1 \in SaveOutcomes :
              ClearemailCommand(caller, args, o1)

SpecLoad == InitLoad /\ [][NextLoad]_vars

\* ------------------------------------------- the cooldown ledger, alone
\* state_manager.set_cooldown(u, seconds) for any number of seconds > 0
SetCooldownCall(u, seconds, o1) ==
    /\ alive
    /\ Dispatch
    /\ Failed(o1) <= saveBudget
    /\ saveBudget' = saveBudget - Failed(o1)
    /\ state' = set_cooldown(state, u, seconds, now)
    /\ disk' = _save_state(disk, state', o1)
    /\ last' = [Event("set_cooldown", u) EXCEPT !.cd = seconds]
    /\ UNCHANGED <<now, _CONSEC_ERRORS, alive, handlers, succ, probe, threshold>>

NextCooldown ==
    \/ Tick
    \/ \E u \in Users, seconds \in 1..MaxSeconds, o1 \in SaveOutcomes :
           SetCooldownCall(u, seconds, o1)

SpecCooldown == Init /\ [][NextCooldown]_vars

\* =================================================================== claims
Armed(st, u, t) == next_allowed(st, u) = t + COOLDOWN_SECONDS

\* C1: for every user, get_user_requests equals the number of the user's
\* requests that ended in the success outcome (counted since the user's last
\* reset, so all of them while no reset is applied); not-found outcomes, error
\* outcomes and gate rejections never change the count.
C1_UsageEqualsSuccesses ==
    \A u \in Users : get_user_requests(state, u) = succ[u]

\* a user with one success whose other, overlapping request ended in an error
C1_Witness ==
    /\ last.op = "error"
    /\ ~last.wrote
    /\ succ[last.user] = 1
    /\ get_user_requests(state, last.user) = 1

\* C2 (as claimed): a request that ends in the error outcome has written
\* neither the usage count nor the cooldown of its user, and the error step
\* adds exactly 1 to the consecutive-error counter.
C2_ErrorOutcomeLeavesLedger ==
    [][last'.op = "error" =>
          /\ ~last'.wrote
          /\ _CONSEC_ERRORS' = _CONSEC_ERRORS + 1]_vars

\* C3: the not-found outcome arms the cooldown to now + COOLDOWN_SECONDS and
\* leaves every usage count and every last-code record as they were; a
\* cooldown changes only in a success or not-found outcome, which arms it, and
\* a usage count grows only in a success outcome, by exactly 1.
C3_OutcomeEffects ==
    [][/\ last'.op = "not_found" =>
              /\ Armed(state', last'.user, now)
              /\ state'.user_requests = state.user_requests
              /\ state'.cached_otps = state.cached_otps
       /\ state'.cooldowns # state.cooldowns => last'.op \in {"success", "not_found"}
       /\ last'.op \in {"success", "not_found"} => Armed(state', last'.user, now)
       /\ \A u \in Users :
              get_user_requests(state', u) > get_user_requests(state, u) =>
                  /\ last'.op = "success"
                  /\ last'.user = u
                  /\ get_user_requests(state', u) = get_user_requests(state, u) + 1
       /\ last'.op = "success" =>
              get_user_requests(state', last'.user)
                  = get_user_requests(state, last'.user) + 1]_vars

\* a not-found outcome of a user who has no usage: cooldown armed, count 0
C3_Witness ==
    /\ last.op = "not_found"
    /\ Armed(state, last.user, now)
    /\ get_user_requests(state, last.user) = 0
    /\ state.cached_otps = EmptyMap

\* C4: the success outcome of a request of user u for email e with code c
\* leaves u's usage count one higher, e's last-code record holding c, u's
\* cooldown armed to now + COOLDOWN_SECONDS, and reports as remaining quota
\* MAX_REQUESTS_PER_USER minus the new usage count.
C4_SuccessEffects ==
    [][last'.op = "success" =>
          LET u == last'.user
              e == last'.email
          IN /\ \E h \in Handlers :
                    /\ handlers[h].pc = "fetching"
                    /\ handlers'[h].pc = "replying"
                    /\ handlers[h].user = u
                    /\ handlers[h].email = e
             /\ get_user_requests(state', u) = get_user_requests(state, u) + 1
             /\ e \in DOMAIN state'.cached_otps
             /\ state'.cached_otps[e].otp = last'.otp
             /\ Armed(state', u, now)
             /\ last'.remaining
                    = MAX_REQUESTS_PER_USER - get_user_requests(state', u)]_vars

\* a user's first success: count 1, the code recorded, the cooldown armed
C4_Witness ==
    /\ last.op = "success"
    /\ last.email \in DOMAIN state.cached_otps
    /\ state.cached_otps[last.email].otp = last.otp
    /\ get_user_requests(state, last.user) = 1
    /\ Armed(state, last.user, now)
    /\ last.remaining = MAX_REQUESTS_PER_USER - 1

\* the users no reset is ever applied to
NeverReset == Users \ {ParseInt(a[1]) : a \in ResetArgs \ { <<>> }}

\* C5 (as claimed): for a user no reset is applied to, neither the number of
\* success outcomes nor the stored usage count ever exceeds
\* MAX_REQUESTS_PER_USER.
C5_QuotaIsMaximum ==
    \A u \in NeverReset :
        /\ succ[u] <= MAX_REQUESTS_PER_USER
        /\ get_user_requests(state, u) <= MAX_REQUESTS_PER_USER

\* C6 (as claimed): no fetch of a user completes (success or not found) at a
\* time when now < nextAllowedAt for that user.
C6_NoFetchDuringCooldown ==
    last.op \in {"success", "not_found"} => ~last.cooling

\* C7: an /otp request rejected at a gate leaves the ledger, the document on
\* disk, the consecutive-error counter and every handler as they were: no
\* delay and no fetch is started for it.
C7_RejectionChangesNothing ==
    [][last'.op = "otp" /\ last'.gate # "pass" =>
          UNCHANGED <<state, disk, _CONSEC_ERRORS, handlers, alive, now>>]_vars

\* a request rejected at the quota gate
C7_Witness ==
    /\ last.op = "otp"
    /\ last.gate = "limit"
    /\ get_user_requests(state, last.user) >= MAX_REQUESTS_PER_USER

\* C8 (as claimed): a request sent by a user right after the user's own
\* success is rejected at the quota check and changes nothing in the ledger.
C8_SecondRequestHitsQuota ==
    [][(last.op = "success" /\ last'.op = "otp" /\ last'.user = last.user
            /\ get_user_requests(state, last.user) >= MAX_REQUESTS_PER_USER) =>
          /\ last'.gate = "limit"
          /\ UNCHANGED <<state, disk>>]_vars

\* C8 (amended): such a request is rejected at the cooldown check, which comes
\* first and reports COOLDOWN_SECONDS seconds to wait, and changes nothing.
C8_SecondRequestHitsCooldown ==
    [][(last.op = "success" /\ last'.op = "otp" /\ last'.user = last.user) =>
          /\ last'.gate = "cooldown"
          /\ last'.cd = COOLDOWN_SECONDS
          /\ UNCHANGED <<state, disk, _CONSEC_ERRORS, handlers>>]_vars

\* a request rejected for cooldown in the instant the user's success armed it
C8_Witness ==
    /\ last.op = "otp"
    /\ last.gate = "cooldown"
    /\ last.cd = COOLDOWN_SECONDS
    /\ get_user_requests(state, last.user) = MAX_REQUESTS_PER_USER
    /\ \E e \in DOMAIN state.cached_otps : state.cached_otps[e].timestamp = now

\* C9 (as claimed): a request of a user with no active cooldown and a usage
\* count >= MAX_REQUESTS_PER_USER is reported as limit reached whatever its
\* argument.
C9_QuotaBeforeEmail ==
    (/\ last.op = "otp"
     /\ remaining_cooldown(state, last.user, now) = 0
     /\ get_user_requests(state, last.user) >= MAX_REQUESTS_PER_USER)
        => last.gate = "limit"

\* C9 (amended): the order is cooldown, missing argument, domain, quota: with
\* a cooldown active the request is told to wait; without one, a user at the
\* quota is told so only for an email of the allowed domain, a missing
\* argument and a wrong domain being reported first.
C9_EmailBeforeQuota ==
    last.op = "otp" =>
        LET u == last.user
        IN /\ remaining_cooldown(state, u, now) > 0 => last.gate = "cooldown"
           /\ (/\ remaining_cooldown(state, u, now) = 0
               /\ get_user_requests(state, u) >= MAX_REQUESTS_PER_USER) =>
                  last.gate =
                      IF last.args = <<>> THEN "no_args"
                      ELSE IF EndsWith(Lower(last.args[1]), <<"@">> \o ALLOWED_DOMAIN)
                           THEN "limit"
                           ELSE "bad_domain"

\* a user at the quota, cooldown over, whose wrong-domain email is what is
\* reported
C9_Witness ==
    /\ last.op = "otp"
    /\ last.gate = "bad_domain"
    /\ remaining_cooldown(state, last.user, now) = 0
    /\ get_user_requests(state, last.user) >= MAX_REQUESTS_PER_USER

\* what C10 calls a valid email: local@domain with a non-empty local part and
\* the allowed domain in any letter case
ClaimedValid(s) ==
    \E i \in 2..Len(s) :
        /\ s[i] = "@"
        /\ Lower(SubSeq(s, i + 1, Len(s))) = Lower(ALLOWED_DOMAIN)

\* C10 (as claimed): the domain validation accepts an argument if and only if
\* its domain is the allowed one in any letter case and its local part is not
\* empty.
C10_DomainValidation ==
    probe.done => (probe.verdict = "pass" <=> ClaimedValid(probe.arg))

\* C11 (as claimed): a success for an email whose fetched code equals the code
\* recorded before as the email's last code emits a staleness warning, with
\* the ledger effects of any success; a success whose code differs from the
\* recorded one, or with none recorded, emits no warning.
C11_StaleCodeWarned ==
    [][last'.op = "success" =>
          LET e == last'.email
              stale == /\ e \in DOMAIN state.cached_otps
                       /\ state.cached_otps[e].otp = last'.otp
          IN /\ last'.warned <=> stale
             /\ state' = success_updates(state, last'.user, e, last'.otp, now)]_vars

\* C12: the error counter counts consecutive error outcomes across all users:
\* an error outcome adds 1, a completed fetch (success or not found) sets it
\* to 0, every other step (gate rejections, admin commands) leaves it as it
\* is; with a threshold > 0 the process exits exactly in the step in which
\* the counter reaches the threshold, so a running process has the counter
\* below the threshold; with a threshold <= 0 the process never exits.
C12_ErrorCounter ==
    /\ [](alive /\ threshold > 0 => _CONSEC_ERRORS < threshold)
    /\ [](threshold <= 0 => alive)
    /\ [][/\ (last'.op = "error") => (_CONSEC_ERRORS' = _CONSEC_ERRORS + 1)
          /\ (last'.op \in {"success", "not_found"}) => (_CONSEC_ERRORS' = 0)
          /\ (last'.op \notin {"error", "success", "not_found"}) =>
                 (_CONSEC_ERRORS' = _CONSEC_ERRORS)
          /\ ~alive' <=> (/\ threshold > 0
                          /\ last'.op = "error"
                          /\ _CONSEC_ERRORS' = threshold)]_vars

\* the process exited in the error outcome that made the counter 2, its
\* threshold
C12_Witness ==
    /\ ~alive
    /\ threshold = 2
    /\ _CONSEC_ERRORS = 2
    /\ last.op = "error"

\* C13 (as claimed): loading the ledger never raises and yields all three
\* mappings: empty ones for a missing file, an unreadable or invalid file and
\* a JSON value that is no object; for an object, the mappings it holds, and
\* empty ones for the keys it lacks.
C13_LoadNeverRaises ==
    [][(~probe.done /\ probe'.done) =>
          /\ probe'.verdict = "loaded"
          /\ DOMAIN state' = LedgerKeys
          /\ \A k \in LedgerKeys :
                 state'[k] = IF disk.kind = "json" /\ k \in DOMAIN disk.doc
                             THEN disk.doc[k]
                             ELSE EmptyMap]_vars

\* a step in which a mutating ledger operation ran
Mutating(ev) ==
    \/ ev.op \in {"success", "not_found"}
    \/ ev.op = "resetlimit" /\ ev.gate = "done"
    \/ ev.op = "clearemail" /\ ev.gate = "cleared"

\* C14 (as claimed): a mutating ledger operation updates the in-memory ledger
\* and rewrites the document; after a successful write the document on disk
\* equals the in-memory ledger; a failed write is swallowed, the caller goes
\* on with the updated in-memory ledger, and the document on disk keeps its
\* content of before the failed write.
C14_FailedWriteKeepsDocument ==
    [][Mutating(last') =>
          /\ alive'
          /\ last'.op \in {"success", "not_found"} => Armed(state', last'.user, now)
          /\ \/ disk' = Document(state')
             \/ /\ saveBudget' < saveBudget
                /\ disk' = disk \/ disk'.kind = "json"]_vars

\* C15: /resetlimit and /clearemail sent by a caller who is not in ADMIN_IDS
\* are answered "Admin only" and leave the ledger and the document on disk
\* as they were; a usage count goes down only in a /resetlimit of an admin,
\* to 0, and a last-code record disappears only in a /clearemail of an admin.
C15_AdminOnly ==
    [][/\ (last'.op \in {"resetlimit", "clearemail"}
              /\ last'.user \notin ADMIN_IDS) =>
              (last'.gate = "admin_only" /\ UNCHANGED <<state, disk>>)
       /\ \A u \in Users :
              get_user_requests(state', u) < get_user_requests(state, u) =>
                  /\ last'.op = "resetlimit"
                  /\ last'.user \in ADMIN_IDS
                  /\ get_user_requests(state', u) = 0
       /\ (DOMAIN state.cached_otps \ DOMAIN state'.cached_otps # {}) =>
              (last'.op = "clearemail" /\ last'.user \in ADMIN_IDS)]_vars

\* a /resetlimit of a non-admin, rejected, with the target's count still 1
C15_Witness ==
    /\ last.op = "resetlimit"
    /\ last.user \notin ADMIN_IDS
    /\ last.gate = "admin_only"
    /\ get_user_requests(state, 1) = 1
    /\ disk = Document(state)

\* C16: after reset_user_limit(u) get_user_requests(u) is 0 whatever the count
\* was (also for a user without a count); the counts of the other users, all
\* cooldowns and all last-code records are as before; and u passes the quota
\* gate again (as soon as u's cooldown is over), with the full
\* MAX_REQUESTS_PER_USER remaining.
C16_ResetUsage ==
    [][(last'.op = "resetlimit" /\ last'.gate = "done") =>
          LET u == ParseInt(last'.args[1])
          IN /\ get_user_requests(state', u) = 0
             /\ \A v \in Users \ {u} :
                    get_user_requests(state', v) = get_user_requests(state, v)
             /\ state'.cooldowns = state.cooldowns
             /\ state'.cached_otps = state.cached_otps
             /\ MAX_REQUESTS_PER_USER - get_user_requests(state', u)
                    = MAX_REQUESTS_PER_USER
             /\ Gate(state', u, << <<"a", "@", "y">> >>, next_allowed(state', u))
                    = "pass"]_vars

\* user 1, who had a count, was reset; user 2's count and user 1's cooldown
\* are still there
C16_Witness ==
    /\ last.op = "resetlimit"
    /\ last.gate = "done"
    /\ 1 \notin DOMAIN state.user_requests
    /\ get_user_requests(state, 2) = 2
    /\ 1 \in DOMAIN state.cooldowns
    /\ disk = Document(state)

\* C17: clear_email(e) for an email with a last-code record returns true (the
\* reply is "cleared"), removes that record and no other, and persists; for
\* an email without a record it returns false, changes nothing in the ledger
\* and does not rewrite the document; usage counts and cooldowns are as
\* before in both cases; called twice in a row for the same email it returns
\* true, then false.
C17_ClearEmail ==
    [][(last'.op = "clearemail" /\ last'.gate \in {"cleared", "nothing_cached"}) =>
          LET e == last'.email
          IN /\ (last'.gate = "cleared") <=> (e \in DOMAIN state.cached_otps)
             /\ (last'.gate = "cleared") =>
                    /\ DOMAIN state'.cached_otps = DOMAIN state.cached_otps \ {e}
                    /\ \A f \in DOMAIN state'.cached_otps :
                           state'.cached_otps[f] = state.cached_otps[f]
                    /\ disk' = Document(state')
             /\ (last'.gate = "nothing_cached") => UNCHANGED <<state, disk>>
             /\ state'.user_requests = state.user_requests
             /\ state'.cooldowns = state.cooldowns
             /\ (last.op = "clearemail" /\ last.gate = "cleared"
                     /\ last.email = e) => (last'.gate = "nothing_cached")]_vars

\* the second of two /clearemail for the same email: nothing cached, the
\* other email's record is still there, the document is the one the first
\* call wrote
C17_Witness ==
    /\ last.op = "clearemail"
    /\ last.gate = "nothing_cached"
    /\ DOMAIN state.cached_otps = { <<"b", "@", "y">> }
    /\ disk = Document(state)
    /\ commands = 2

\* C18: with the integer clock, right after set_cooldown(u, s), s > 0, the
\* record is now + s and remaining_cooldown(u) is in (0, s]; at every time
\* remaining_cooldown(u) is nextAllowedAt - now while that is positive and 0
\* from nextAllowedAt on, so it never grows while time advances; it is 0 for
\* a user without a record.
C18_RemainingCooldown ==
    /\ [](\A u \in Users :
             LET r == remaining_cooldown(state, u, now)
             IN IF u \in DOMAIN state.cooldowns
                THEN /\ now >= state.cooldowns[u] => r = 0
                     /\ now < state.cooldowns[u] => r = state.cooldowns[u] - now
                ELSE r = 0)
    /\ [][/\ (last'.op = "set_cooldown") =>
                 /\ state'.cooldowns[last'.user] = now + last'.cd
                 /\ remaining_cooldown(state', last'.user, now') > 0
                 /\ remaining_cooldown(state', last'.user, now') <= last'.cd
          /\ (now' > now) =>
                 \A u \in Users : remaining_cooldown(state', u, now')
                                      <= remaining_cooldown(state, u, now)]_vars

\* the instant a cooldown of 2 seconds runs out: nextAllowedAt = now
C18_Witness ==
    /\ now > 0
    /\ \E u \in DOMAIN state.cooldowns :
           /\ state.cooldowns[u] = now
           /\ remaining_cooldown(state, u, now) = 0
    /\ \E u \in Users : u \notin DOMAIN state.cooldowns

OutcomeApplied ==
    /\ (state' # state \/ disk' # disk) => Mutating(last')
    /\ (last'.op \in {"success", "not_found"}) =>
           LET u == last'.user
               e == last'.email
           IN /\ \E h \in Handlers :
                     /\ handlers[h].pc = "fetching"
                     /\ handlers[h].user = u
                     /\ handlers' = [handlers EXCEPT ![h].pc = "replying"]
              /\ \A v \in Users \ {u} :
                     /\ get_user_requests(state', v) = get_user_requests(state, v)
                     /\ next_allowed(state', v) = next_allowed(state, v)
              /\ \A f \in DOMAIN state.cached_otps \ {e} :
                     /\ f \in DOMAIN state'.cached_otps
                     /\ state'.cached_otps[f] = state.cached_otps[f]
              /\ get_user_requests(state', u) =
                     get_user_requests(state, u)
                         + (IF last'.op = "success" THEN 1 ELSE 0)
              /\ Armed(state', u, now)
              /\ disk' = Document(state')

\* C20 (as claimed): a handler is suspended only during the fixed delay and
\* during the fetch, no ledger operation has a suspension point inside, and
\* so the outcomes of interleaved handlers apply to the in-memory ledger one
\* after another, none lost, the document written last holding them all.
C20_SuspendedInDelayOrFetchOnly ==
    /\ [](\A h \in Handlers : handlers[h].pc \in {"idle", "delaying", "fetching"})
    /\ [][OutcomeApplied]_vars

\* C20 (amended): a handler is suspended only at an await: while its reply is
\* being sent, during the fixed delay and during the fetch; no ledger
\* operation has a suspension point inside, and so the outcomes of
\* interleaved handlers apply to the in-memory ledger one after another, none
\* lost, the document written last holding them all.
C20_NoLostUpdates ==
    /\ [](\A h \in Handlers :
             handlers[h].pc \in {"idle", "delaying", "fetching", "replying"})
    /\ [][/\ OutcomeApplied
          /\ \A h \in Handlers :
                 (handlers[h].pc \in {"delaying", "replying"}
                     /\ handlers'[h] # handlers[h]) =>
                     UNCHANGED <<state, disk>>]_vars

\* two users whose requests overlapped and whose outcomes came at the same
\* clock value: both counts, both cooldowns, on disk as in memory
C20_Witness ==
    /\ last.op = "success"
    /\ \A u \in Users :
           /\ get_user_requests(state, u) = 1
           /\ Armed(state, u, now)
    /\ disk = Document(state)

====
